---- MODULE Spec2Model ----
(***************************************************************************)
(* Model of src/main.rs of base64decode: the lenient base64 bit-packing    *)
(* decoder (Game::decode_text_raw, Game::decode_single), the text          *)
(* reconstruction (Game::decode_text) and the event handlers of Game that  *)
(* keep decoded_text in step with current_text.                            *)
(*                                                                         *)
(* A character is its Unicode scalar value, a string is a sequence of      *)
(* characters, a byte is a number in 0..255 and a Vec<u8> is a sequence of *)
(* bytes.  Option<u8> is a sequence of length 0 (None) or 1 (Some).        *)
(*                                                                         *)
(* Spec   steps through one call of decode_text(text), loop iteration by   *)
(*        loop iteration, for every text of the bounded input sets.        *)
(* SpecUI runs the event handlers of Game, each handler one action.        *)
(***************************************************************************)
EXTENDS Integers, Sequences, FiniteSets

VARIABLES
    text,          \* decode_text / decode_text_raw: the argument
    orig,          \* the bytes `text` was encoded from ("b64" inputs), else <<>>
    mode,          \* how the input was drawn: "raw" or "b64"
    pc,            \* position inside decode_text
    pos,           \* decode_text_raw: 1-based index of the next char of text.chars()
    current_bit,   \* decode_text_raw: current_bit
    values,        \* decode_text_raw / decode_text: values
    raw,           \* the buffer decode_text_raw returned (history)
    writers,       \* byte index (0-based) -> positions of the chars that OR-ed into it (history)
    decoded,       \* decode_text: decoded
    result,        \* decode_text: the returned String
    current_text,  \* Game.current_text
    decoded_text,  \* Game.decoded_text
    window_size,   \* Game.window.window.window_size
    status,        \* "running", "quit" (on_event returned false) or "panicked"
    last_event     \* kind of the last event given to on_event (history)

decodeVars == <<text, orig, mode, pc, pos, current_bit, values, raw, writers, decoded, result>>
uiVars == <<current_text, decoded_text, window_size, status, last_event>>
vars == <<text, orig, mode, pc, pos, current_bit, values, raw, writers, decoded, result,
          current_text, decoded_text, window_size, status, last_event>>

\* ---------------------------------------------------------------- bounds
MaxLen == 4
MaxBytes == 3
MaxUILen == 3

\* Input characters of the step model: 'A' 'Q' 'T' 'w' '/' '=' '!' U+00E9 U+20AC.
Chars == {65, 81, 84, 119, 47, 61, 33, 233, 8364}
\* Bytes the base64-encoded inputs are made from.
ByteVals == {0, 1, 32, 77, 127, 169, 195, 251, 255}
\* Characters the UI model types and pastes: 'A' 'Q' 'T' '=' '!' U+00E9.
UIChars == {65, 81, 84, 61, 33, 233}
WindowSizes == {<<1024, 100>>, <<640, 480>>}

RECURSIVE SeqsUpTo(_, _)
SeqsUpTo(S, n) ==
    IF n = 0 THEN {<<>>}
    ELSE LET shorter == SeqsUpTo(S, n - 1)
         IN shorter \cup {Append(s, x) : s \in {t \in shorter : Len(t) = n - 1}, x \in S}

\* ---------------------------------------------------------------- u8 arithmetic
SPACE == 32
REPLACEMENT_CHARACTER == 65533

RECURSIVE BitOr(_, _)
BitOr(a, b) ==
    IF a = 0 THEN b
    ELSE IF b = 0 THEN a
    ELSE (IF a % 2 = 1 \/ b % 2 = 1 THEN 1 ELSE 0) + 2 * BitOr(a \div 2, b \div 2)

RECURSIVE BitAnd(_, _)
BitAnd(a, b) ==
    IF a = 0 \/ b = 0 THEN 0
    ELSE (IF a % 2 = 1 /\ b % 2 = 1 THEN 1 ELSE 0) + 2 * BitAnd(a \div 2, b \div 2)

\* u8 << s and u8 >> s for 0 <= s <= 7: bits shifted out of the byte are lost.
Shl8(v, s) == (v * (2 ^ s)) % 256
Shr8(v, s) == v \div (2 ^ s)

\* ---------------------------------------------------------------- decode_single
None == <<>>
Some(v) == <<v>>

\* Mutant: the lower-case range is offset by 25 instead of 26.
decode_single_lower25(c) ==
    IF c >= 65 /\ c <= 90 THEN Some((c - 65) % 256)
    ELSE IF c >= 97 /\ c <= 122 THEN Some((c - 97 + 25) % 256)
    ELSE IF c >= 48 /\ c <= 57 THEN Some((c - 48 + 52) % 256)
    ELSE IF c = 43 THEN Some(62)
    ELSE IF c = 47 THEN Some(63)
    ELSE IF c = 61 THEN Some(0)
    ELSE None

decode_single(c) ==
    IF c >= 65 /\ c <= 90 THEN Some((c - 65) % 256)
    ELSE IF c >= 97 /\ c <= 122 THEN Some((c - 97 + 26) % 256)
    ELSE IF c >= 48 /\ c <= 57 THEN Some((c - 48 + 52) % 256)
    ELSE IF c = 43 THEN Some(62)
    ELSE IF c = 47 THEN Some(63)
    ELSE IF c = 61 THEN Some(0)
    ELSE None

\* ---------------------------------------------------------------- decode_text_raw
\* char::len_utf8, and str::len: the length of a &str in bytes.
len_utf8(c) == IF c < 128 THEN 1 ELSE IF c < 2048 THEN 2 ELSE IF c < 65536 THEN 3 ELSE 4

RECURSIVE str_len(_)
str_len(s) == IF s = <<>> THEN 0 ELSE len_utf8(Head(s)) + str_len(Tail(s))

total_bits(t) == str_len(t) * 6
full_bytes(t) == total_bits(t) \div 8
\* Mutant: the partial last byte is not allocated.
padding_bytes_none(t) == IF total_bits(t) % 8 = 0 THEN 0 ELSE 0

padding_bytes(t) == IF total_bits(t) % 8 = 0 THEN 0 ELSE 1

\* vec![0; full_bytes + padding_bytes]
AllocValues(t) == [j \in 1..(full_bytes(t) + padding_bytes(t)) |-> 0]

current_byte(cb) == cb \div 8
bit_remainder(cb) == cb % 8

\* Mutant: next_shift is 8 - bit_remainder.
Shifts_next8(cb) ==
    IF bit_remainder(cb) > 2
    THEN <<bit_remainder(cb) - 2, 8 - bit_remainder(cb)>>
    ELSE <<2 - bit_remainder(cb)>>

\* The shift amounts one iteration uses, in the order the code computes them.
Shifts(cb) ==
    IF bit_remainder(cb) > 2
    THEN <<bit_remainder(cb) - 2, 10 - bit_remainder(cb)>>
    ELSE <<2 - bit_remainder(cb)>>

\* The 0-based indices of `values` one iteration indexes, in order.
WriteIndices(cb) ==
    IF bit_remainder(cb) > 2
    THEN <<current_byte(cb), current_byte(cb) + 1>>
    ELSE <<current_byte(cb)>>

\* values[i] panics when i is out of bounds.
InBounds(vals, cb) ==
    \A k \in 1..Len(WriteIndices(cb)) : WriteIndices(cb)[k] < Len(vals)

\* The operands OR-ed into the bytes of WriteIndices(cb), for symbol value index.
Operands(cb, index) ==
    IF bit_remainder(cb) > 2
    THEN <<Shr8(index, Shifts(cb)[1]), Shl8(index, Shifts(cb)[2])>>
    ELSE <<Shl8(index, Shifts(cb)[1])>>

\* Mutant: the bytes are assigned, not OR-ed into.
PackChar_overwrite(vals, cb, index) ==
    LET b == current_byte(cb) + 1
        ops == Operands(cb, index)
    IN IF bit_remainder(cb) > 2
       THEN [vals EXCEPT ![b] = ops[1], ![b + 1] = ops[2]]
       ELSE [vals EXCEPT ![b] = ops[1]]

\* The body of `if let Some(index)`: values[..] |= ..  (indices in bounds).
PackChar(vals, cb, index) ==
    LET b == current_byte(cb) + 1
        ops == Operands(cb, index)
    IN IF bit_remainder(cb) > 2
       THEN [vals EXCEPT ![b] = BitOr(vals[b], ops[1]),
                         ![b + 1] = BitOr(vals[b + 1], ops[2])]
       ELSE [vals EXCEPT ![b] = BitOr(vals[b], ops[1])]

\* Mutant: the bit cursor advances by 4.
NextBit_four(cb) == cb + 4

\* current_bit += 6
NextBit(cb) == cb + 6

RECURSIVE PackFrom(_, _, _, _)
PackFrom(vals, cb, t, p) ==
    IF p > Len(t) THEN vals
    ELSE LET opt == decode_single(t[p])
         IN IF opt = None THEN PackFrom(vals, NextBit(cb), t, p + 1)
            ELSE IF ~InBounds(vals, cb) THEN vals
            ELSE PackFrom(PackChar(vals, cb, opt[1]), NextBit(cb), t, p + 1)

RECURSIVE PanicsFrom(_, _, _, _)
PanicsFrom(vals, cb, t, p) ==
    IF p > Len(t) THEN FALSE
    ELSE (decode_single(t[p]) # None /\ ~InBounds(vals, cb))
         \/ PanicsFrom(vals, NextBit(cb), t, p + 1)

decode_text_raw(t) == PackFrom(AllocValues(t), 0, t, 1)
decode_text_raw_panics(t) == PanicsFrom(AllocValues(t), 0, t, 1)

\* ---------------------------------------------------------------- decode_text
\* Mutant: the last remaining byte is never popped.
NeedsPop_keepone(vals) == Len(vals) > 1 /\ vals[Len(vals)] = 0

\* if let Some(&last_value) = values.last() { if last_value == 0 { pop } .. }
NeedsPop(vals) == Len(vals) > 0 /\ vals[Len(vals)] = 0
Pop(vals) == SubSeq(vals, 1, Len(vals) - 1)

RECURSIVE TrimZeros(_)
TrimZeros(vals) == IF NeedsPop(vals) THEN TrimZeros(Pop(vals)) ELSE vals

\* String::from_utf8_lossy: every maximal invalid part becomes one U+FFFD.
safe_get(bs, i) == IF i <= Len(bs) THEN bs[i] ELSE 0
IsCont(b) == b >= 128 /\ b <= 191
utf8_char_width(b) ==
    IF b < 128 THEN 1
    ELSE IF b >= 194 /\ b <= 223 THEN 2
    ELSE IF b >= 224 /\ b <= 239 THEN 3
    ELSE IF b >= 240 /\ b <= 244 THEN 4
    ELSE 0

SecondOk3(b, s) ==
    \/ b = 224 /\ s >= 160 /\ s <= 191
    \/ b >= 225 /\ b <= 236 /\ s >= 128 /\ s <= 191
    \/ b = 237 /\ s >= 128 /\ s <= 159
    \/ b >= 238 /\ b <= 239 /\ s >= 128 /\ s <= 191

SecondOk4(b, s) ==
    \/ b = 240 /\ s >= 144 /\ s <= 191
    \/ b >= 241 /\ b <= 243 /\ s >= 128 /\ s <= 191
    \/ b = 244 /\ s >= 128 /\ s <= 143

\* One char or one invalid part starting at bs[i]: <<the char it yields, bytes consumed>>.
Utf8Next(bs, i) ==
    LET b == bs[i]
        w == utf8_char_width(b)
        b2 == safe_get(bs, i + 1)
        b3 == safe_get(bs, i + 2)
        b4 == safe_get(bs, i + 3)
    IN IF w = 1 THEN <<b, 1>>
       ELSE IF w = 2 THEN
            IF IsCont(b2) THEN <<(b % 32) * 64 + (b2 % 64), 2>>
            ELSE <<REPLACEMENT_CHARACTER, 1>>
       ELSE IF w = 3 THEN
            IF ~SecondOk3(b, b2) THEN <<REPLACEMENT_CHARACTER, 1>>
            ELSE IF ~IsCont(b3) THEN <<REPLACEMENT_CHARACTER, 2>>
            ELSE <<(b % 16) * 4096 + (b2 % 64) * 64 + (b3 % 64), 3>>
       ELSE IF w = 4 THEN
            IF ~SecondOk4(b, b2) THEN <<REPLACEMENT_CHARACTER, 1>>
            ELSE IF ~IsCont(b3) THEN <<REPLACEMENT_CHARACTER, 2>>
            ELSE IF ~IsCont(b4) THEN <<REPLACEMENT_CHARACTER, 3>>
            ELSE <<(b % 8) * 262144 + (b2 % 64) * 4096 + (b3 % 64) * 64 + (b4 % 64), 4>>
       ELSE <<REPLACEMENT_CHARACTER, 1>>

RECURSIVE LossyFrom(_, _)
LossyFrom(bs, i) ==
    IF i > Len(bs) THEN <<>>
    ELSE LET n == Utf8Next(bs, i)
         IN <<n[1]>> \o LossyFrom(bs, i + n[2])

from_utf8_lossy(bs) == LossyFrom(bs, 1)

\* Mutant: DEL (U+007F) counts as graphic.
is_ascii_graphic_del(c) == c >= 33 /\ c <= 127

\* char::is_ascii_graphic: U+0021 '!' ..= U+007E '~'
is_ascii_graphic(c) == c >= 33 /\ c <= 126

\* the closure given to replace: the chars that are replaced
IsReplaced(c) == ~(is_ascii_graphic(c) \/ c = SPACE)

\* decoded.replace(pattern, "\u{FFFD}")
Sanitize(s) == [k \in 1..Len(s) |-> IF IsReplaced(s[k]) THEN REPLACEMENT_CHARACTER ELSE s[k]]

decode_text(t) == Sanitize(from_utf8_lossy(TrimZeros(decode_text_raw(t))))

\* ---------------------------------------------------------------- inputs
Texts == SeqsUpTo(Chars, MaxLen)
ByteSeqs == SeqsUpTo(ByteVals, MaxBytes)

\* The canonical base64 alphabet (RFC 4648, table 1): symbol value k is B64Alphabet[k + 1].
B64Alphabet ==
    <<65, 66, 67, 68, 69, 70, 71, 72, 73, 74, 75, 76, 77, 78, 79, 80,
      81, 82, 83, 84, 85, 86, 87, 88, 89, 90, 97, 98, 99, 100, 101, 102,
      103, 104, 105, 106, 107, 108, 109, 110, 111, 112, 113, 114, 115, 116, 117, 118,
      119, 120, 121, 122, 48, 49, 50, 51, 52, 53, 54, 55, 56, 57, 43, 47>>

\* Bit p (0-based, most significant bit of each byte first) of a byte sequence.
BufBit(buf, p) == (buf[(p \div 8) + 1] \div (2 ^ (7 - (p % 8)))) % 2
BitOrZero(buf, p) == IF p < 8 * Len(buf) THEN BufBit(buf, p) ELSE 0

SixBits(buf, k) ==
    32 * BitOrZero(buf, 6 * k) + 16 * BitOrZero(buf, 6 * k + 1) + 8 * BitOrZero(buf, 6 * k + 2)
    + 4 * BitOrZero(buf, 6 * k + 3) + 2 * BitOrZero(buf, 6 * k + 4) + BitOrZero(buf, 6 * k + 5)

\* The canonical encoding of the bytes B, with '=' padding to a multiple of 4 or without.
Base64Encode(B, padded) ==
    LET nsym == (8 * Len(B) + 5) \div 6
        syms == [k \in 1..nsym |-> B64Alphabet[SixBits(B, k - 1) + 1]]
        npad == IF padded THEN (4 - (nsym % 4)) % 4 ELSE 0
    IN syms \o [k \in 1..npad |-> 61]

\* ---------------------------------------------------------------- one call of decode_text
UIInit ==
    /\ current_text = <<>>
    /\ decoded_text = <<>>
    /\ window_size = <<1024, 100>>
    /\ status = "running"
    /\ last_event = "none"

CallInit ==
    /\ pc = "call"
    /\ pos = 1
    /\ current_bit = 0
    /\ values = <<>>
    /\ raw = <<>>
    /\ writers = <<>>
    /\ decoded = <<>>
    /\ result = <<>>

Init ==
    /\ \/ /\ mode = "raw"
          /\ text \in Texts
          /\ orig = <<>>
       \/ /\ mode = "b64"
          /\ \E B \in ByteSeqs, padded \in BOOLEAN :
                /\ text = Base64Encode(B, padded)
                /\ orig = B
    /\ CallInit
    /\ UIInit

\* let mut current_bit = 0; let mut values = vec![0; full_bytes + padding_bytes];
Alloc ==
    /\ pc = "call"
    /\ values' = AllocValues(text)
    /\ writers' = [j \in 1..Len(AllocValues(text)) |-> {}]
    /\ current_bit' = 0
    /\ pos' = 1
    /\ pc' = "loop"
    /\ UNCHANGED <<text, orig, mode, raw, decoded, result>>
    /\ UNCHANGED uiVars

\* The writers of the bytes after the char at position p wrote at bit offset cb.
NoteWriters(w, cb, p) ==
    [j \in 1..Len(w) |->
        IF \E k \in 1..Len(WriteIndices(cb)) : WriteIndices(cb)[k] + 1 = j
        THEN w[j] \cup {p} ELSE w[j]]

\* One iteration of `for c in text.chars()`.
LoopStep ==
    /\ pc = "loop"
    /\ pos <= Len(text)
    /\ LET opt == decode_single(text[pos])
       IN IF opt = None
          THEN /\ pc' = "loop"
               /\ UNCHANGED <<values, writers>>
          ELSE IF ~InBounds(values, current_bit)
          THEN /\ pc' = "panic"
               /\ UNCHANGED <<values, writers>>
          ELSE /\ pc' = "loop"
               /\ values' = PackChar(values, current_bit, opt[1])
               /\ writers' = NoteWriters(writers, current_bit, pos)
    /\ current_bit' = IF pc' = "panic" THEN current_bit ELSE NextBit(current_bit)
    /\ pos' = IF pc' = "panic" THEN pos ELSE pos + 1
    /\ UNCHANGED <<text, orig, mode, raw, decoded, result>>
    /\ UNCHANGED uiVars

\* The iterator is exhausted: decode_text_raw returns values to decode_text.
LoopEnd ==
    /\ pc = "loop"
    /\ pos > Len(text)
    /\ raw' = values
    /\ pc' = "trim"
    /\ UNCHANGED <<text, orig, mode, pos, current_bit, values, writers, decoded, result>>
    /\ UNCHANGED uiVars

\* One iteration of the trimming loop of decode_text.
TrimStep ==
    /\ pc = "trim"
    /\ IF NeedsPop(values)
       THEN /\ values' = Pop(values)
            /\ pc' = "trim"
       ELSE /\ pc' = "utf8"
            /\ UNCHANGED values
    /\ UNCHANGED <<text, orig, mode, pos, current_bit, raw, writers, decoded, result>>
    /\ UNCHANGED uiVars

\* let decoded = String::from_utf8_lossy(&values).into_owned();
Lossy ==
    /\ pc = "utf8"
    /\ decoded' = from_utf8_lossy(values)
    /\ pc' = "replace"
    /\ UNCHANGED <<text, orig, mode, pos, current_bit, values, raw, writers, result>>
    /\ UNCHANGED uiVars

\* decoded.replace(..) is returned.
Replace ==
    /\ pc = "replace"
    /\ result' = Sanitize(decoded)
    /\ pc' = "done"
    /\ UNCHANGED <<text, orig, mode, pos, current_bit, values, raw, writers, decoded>>
    /\ UNCHANGED uiVars

Next == Alloc \/ LoopStep \/ LoopEnd \/ TrimStep \/ Lossy \/ Replace

Spec == Init /\ [][Next]_vars

\* ---------------------------------------------------------------- Game: the event handlers
MaxInput == 2

\* The strings a TextInput event carries, and the clipboard texts ('' included).
InputStrings == SeqsUpTo(UIChars, MaxInput) \ {<<>>}
ClipboardTexts == SeqsUpTo(UIChars, MaxInput)

\* self.decoded_text = Self::decode_text(&self.current_text);
update_text(g) == [g EXCEPT !.decoded_text = decode_text(g.current_text)]

\* self.current_text += s; self.update_text();
add_text(g, s) == update_text([g EXCEPT !.current_text = @ \o s])

\* Mutant: remove_char does not call update_text.
remove_char_stale(g) ==
    [g EXCEPT !.current_text = IF @ = <<>> THEN <<>> ELSE SubSeq(@, 1, Len(@) - 1)]

\* self.current_text.pop(); self.update_text();   (String::pop removes the last char, if any)
remove_char(g) ==
    update_text([g EXCEPT !.current_text = IF @ = <<>> THEN <<>> ELSE SubSeq(@, 1, Len(@) - 1)])

Game == [current_text |-> current_text, decoded_text |-> decoded_text]

\* The handler leaves the Game as g; a panic inside decode_text_raw ends the program.
Becomes(g, kind) ==
    /\ last_event' = kind
    /\ current_text' = g.current_text
    /\ IF decode_text_raw_panics(g.current_text)
       THEN /\ status' = "panicked"
            /\ UNCHANGED decoded_text
       ELSE /\ status' = status
            /\ decoded_text' = g.decoded_text
    /\ UNCHANGED window_size
    /\ UNCHANGED decodeVars

\* Event::Quit{..} => return false
EvQuit ==
    /\ status = "running"
    /\ status' = "quit"
    /\ last_event' = "Quit"
    /\ UNCHANGED <<current_text, decoded_text, window_size>>
    /\ UNCHANGED decodeVars

\* Event::Window{win_event: WindowEvent::Resized(x, y), ..}
EvResized ==
    /\ status = "running"
    /\ \E sz \in WindowSizes : window_size' = sz
    /\ last_event' = "Resized"
    /\ UNCHANGED <<current_text, decoded_text, status>>
    /\ UNCHANGED decodeVars

\* Event::TextInput{text, ..} => self.add_text(&text)
EvTextInput ==
    /\ status = "running"
    /\ \E s \in InputStrings :
          /\ Len(current_text) + Len(s) <= MaxUILen
          /\ Becomes(add_text(Game, s), "TextInput")

\* Scancode::Backspace => self.remove_char()
EvBackspace ==
    /\ status = "running"
    /\ Becomes(remove_char(Game), "Backspace")

\* Scancode::Space => self.add_text(" ")
EvSpace ==
    /\ status = "running"
    /\ Len(current_text) + 1 <= MaxUILen
    /\ Becomes(add_text(Game, <<SPACE>>), "Space")

\* Scancode::V with a ctrl modifier: Ok(text) => self.add_text(&text)
EvPaste ==
    /\ status = "running"
    /\ \E s \in ClipboardTexts :
          /\ Len(current_text) + Len(s) <= MaxUILen
          /\ Becomes(add_text(Game, s), "Paste")

\* Scancode::V with a ctrl modifier: Err(err) => eprintln!(..)
EvPasteErr ==
    /\ status = "running"
    /\ last_event' = "PasteErr"
    /\ UNCHANGED <<current_text, decoded_text, window_size, status>>
    /\ UNCHANGED decodeVars

\* Any other key, and any other event: `_ => ()`
EvOther ==
    /\ status = "running"
    /\ last_event' = "Other"
    /\ UNCHANGED <<current_text, decoded_text, window_size, status>>
    /\ UNCHANGED decodeVars

\* Game::new: current_text and decoded_text are String::new(); main: window_size 1024 x 100.
InitUI ==
    /\ UIInit
    /\ CallInit
    /\ text = <<>>
    /\ orig = <<>>
    /\ mode = "raw"

NextUI ==
    \/ EvQuit \/ EvResized \/ EvTextInput \/ EvBackspace
    \/ EvSpace \/ EvPaste \/ EvPasteErr \/ EvOther

SpecUI == InitUI /\ [][NextUI]_vars

\* ================================================================ properties
\* The symbol value of a character by the alphabet table: A-Z 0..25, a-z 26..51,
\* 0-9 52..61, '+' 62, '/' 63; '=' and every other character count as 0.
SymbolValue(c) ==
    IF \E k \in 1..64 : B64Alphabet[k] = c
    THEN (CHOOSE k \in 1..64 : B64Alphabet[k] = c) - 1
    ELSE 0

\* Bit j (0 = most significant of the six) of a symbol value.
SymbolBit(v, j) == (v \div (2 ^ (5 - j))) % 2

\* C1: in the buffer decode_text_raw returns, the bits 6i .. 6i+5 (most significant bit
\* of each byte first) are the six bits of the symbol value of the character at index i,
\* high to low, where '=' and every character outside the alphabet count as 0; every bit
\* at a position >= 6 * (number of characters) is 0.  An invalid character neither stops
\* the decoding nor moves a later character.
C1_BitLayout ==
    pc = "done" =>
        /\ 8 * Len(raw) >= 6 * Len(text)
        /\ \A i \in 1..Len(text) : \A j \in 0..5 :
              BufBit(raw, 6 * (i - 1) + j) = SymbolBit(SymbolValue(text[i]), j)
        /\ \A p \in (6 * Len(text))..(8 * Len(raw) - 1) : BufBit(raw, p) = 0

\* "T!/": an invalid character in the middle, a length that is no multiple of 4.
C1_Witness == pc = "done" /\ text = <<84, 33, 47>> /\ raw = <<76, 15, 192>>

\* C2: the buffer decode_text_raw returns has length ceil(n*6/8) for a text of n
\* characters, whichever characters they are (characters outside ASCII included).
C2_LengthByChars == pc = "done" => Len(raw) = (6 * Len(text) + 7) \div 8

\* C3: when the text is the canonical base64 encoding of the bytes orig (padded with '='
\* or not), the buffer decode_text_raw returns starts with the bytes of orig, every byte
\* after them is 0, and no byte is removed: its length is ceil(6 * symbols / 8).
C3_RoundTrip ==
    (pc = "done" /\ mode = "b64") =>
        /\ Len(raw) = (6 * Len(text) + 7) \div 8
        /\ Len(raw) >= Len(orig)
        /\ \A j \in 1..Len(raw) : raw[j] = IF j <= Len(orig) THEN orig[j] ELSE 0

\* "+/8=" is the padded encoding of FB FF.
C3_Witness ==
    /\ pc = "done" /\ mode = "b64"
    /\ orig = <<251, 255>> /\ text = <<43, 47, 56, 61>> /\ raw = <<251, 255, 0>>

\* Characters outside the base64 alphabet: '!' '#' U+00E9 U+20AC.
NonAlphabet == {33, 35, 233, 8364}

\* C4: for a text ending in '=', replacing that '=' by any character outside the
\* alphabet gives an identical buffer from decode_text_raw (same length, same bytes).
C4_PadInterchangeable ==
    (pc = "done" /\ Len(text) > 0 /\ text[Len(text)] = 61) =>
        \A c \in NonAlphabet : decode_text_raw([text EXCEPT ![Len(text)] = c]) = raw

\* Progress measure of one call of decode_text.
Measure ==
    LET W == 4 * Len(text) + 8
    IN CASE pc = "call" -> 5 * W
         [] pc = "loop" -> 4 * W + (Len(text) + 1 - pos)
         [] pc = "trim" -> 3 * W + Len(values)
         [] pc = "utf8" -> 2 * W
         [] pc = "replace" -> W
         [] OTHER -> 0

C5_Safe ==
    /\ pc # "panic"
    /\ (pc = "loop" /\ pos <= Len(text) /\ decode_single(text[pos]) # None) =>
          /\ \A k \in 1..Len(WriteIndices(current_bit)) :
                /\ WriteIndices(current_bit)[k] >= 0
                /\ WriteIndices(current_bit)[k] < Len(values)
          /\ \A k \in 1..Len(Shifts(current_bit)) :
                Shifts(current_bit)[k] >= 0 /\ Shifts(current_bit)[k] <= 7
    /\ pc = "done" \/ ENABLED Next

\* C5: decode_text_raw and decode_text never fail: every byte index the packing loop
\* writes (current_byte, and current_byte + 1 when the bits straddle) is inside the
\* buffer, every shift amount is in 0..7, no step panics, a step is possible until the
\* value is returned, and every step brings the return nearer.
C5_NeverFails == [](C5_Safe) /\ [][Measure' < Measure]_vars

\* "//\u{e9}/": straddling writes into the last allocated byte, after a 2-byte char.
C5_Witness == pc = "done" /\ text = <<47, 47, 233, 47>> /\ Len(raw) = 4

LongestNonZeroPrefix(buf) ==
    LET nz == {j \in 1..Len(buf) : buf[j] # 0}
        k == IF nz = {} THEN 0 ELSE CHOOSE j \in nz : \A m \in nz : m <= j
    IN SubSeq(buf, 1, k)

\* C6: decode_text builds its string from exactly the longest prefix of the raw buffer
\* whose last byte is non-zero; an empty or all-zero buffer (the empty text, a text of
\* only invalid characters, '=' and 'A') gives the empty string; "TQ==" gives "M" and
\* "!!!!" gives "".
C6_TrimTrailingZeros ==
    pc = "done" =>
        /\ values = LongestNonZeroPrefix(raw)
        /\ result = Sanitize(from_utf8_lossy(LongestNonZeroPrefix(raw)))
        /\ (\A j \in 1..Len(raw) : raw[j] = 0) => result = <<>>
        /\ (\A i \in 1..Len(text) : text[i] \in {65, 61, 33, 35, 233, 8364}) => result = <<>>
        /\ text = <<84, 81, 61, 61>> => result = <<77>>
        /\ text = <<33, 33, 33, 33>> => result = <<>>

\* 4D 00 4D: the zero byte in the middle stays, "TQBN" decodes to 3 bytes.
C6_Witness ==
    /\ pc = "done" /\ mode = "b64" /\ orig = <<77, 0, 77>>
    /\ values = <<77, 0, 77>> /\ result = <<77, 65533, 77>>

\* C7: when the trimmed buffer holds only bytes below 0x80, decode_text returns one
\* character per byte, in order: the byte's own character for 0x20..0x7E, and exactly
\* one U+FFFD for every other byte (0x00..0x1F and 0x7F).
C7_OneMarkerPerControl ==
    (pc = "done" /\ \A j \in 1..Len(values) : values[j] < 128) =>
        /\ Len(result) = Len(values)
        /\ \A j \in 1..Len(values) :
              result[j] = IF values[j] >= 32 /\ values[j] <= 126
                          THEN values[j] ELSE 65533

C7_Witness == pc = "done" /\ values = <<1, 32, 127>> /\ result = <<65533, 32, 65533>>

\* C8: right before a character's value is OR-ed into the buffer, the buffer bits of
\* that character (6 pos .. 6 pos + 5) are all 0; every byte is written by at most two
\* characters, and they are adjacent in the text.
C8_NoBitWrittenTwice ==
    /\ (pc = "loop" /\ pos <= Len(text) /\ decode_single(text[pos]) # None) =>
          \A p \in current_bit..(current_bit + 5) : BitOrZero(values, p) = 0
    /\ \A j \in 1..Len(writers) :
          /\ Cardinality(writers[j]) <= 2
          /\ \A a \in writers[j], b \in writers[j] : a - b \in {-1, 0, 1}

C8_Witness ==
    pc = "done" /\ text = <<47, 47, 47, 47>> /\ writers = <<{1, 2}, {2, 3}, {3, 4}>>

\* C10: appending one ASCII character to an ASCII text only extends the buffer of
\* decode_text_raw: it is at least as long, equal at every byte index below
\* floor(6 * len / 8), and in the last byte of the shorter buffer (when 6 * len is not
\* a multiple of 8) every bit that was set stays set and the bits of the old characters
\* stay as they were.
C10_AppendExtends ==
    (pc = "done" /\ Len(text) > 0 /\ \A i \in 1..Len(text) : text[i] < 128) =>
        LET t == SubSeq(text, 1, Len(text) - 1)
            old == decode_text_raw(t)
            fb == (6 * Len(t)) \div 8
            r == (6 * Len(t)) % 8
        IN /\ Len(raw) >= Len(old)
           /\ \A j \in 1..fb : raw[j] = old[j]
           /\ r # 0 =>
                 /\ BitAnd(raw[fb + 1], old[fb + 1]) = old[fb + 1]
                 /\ raw[fb + 1] \div (2 ^ (8 - r)) = old[fb + 1] \div (2 ^ (8 - r))

\* "T" decodes to 4C, "T/" to 4F F0.
C10_Witness == pc = "done" /\ text = <<84, 47>> /\ raw = <<79, 240>>

NonEditEvents == {"Quit", "Resized", "PasteErr", "Other"}

\* C9: after any sequence of events decoded_text is decode_text(current_text), and an
\* event that does not edit the text leaves current_text and decoded_text unchanged.
C9_DecodedInSync ==
    /\ [](status # "panicked" /\ decoded_text = decode_text(current_text))
    /\ [][last_event' \in NonEditEvents => UNCHANGED <<current_text, decoded_text>>]_vars

\* "TQ=" typed, the '=' removed again: current_text "TQ", decoded_text "M".
C9_Witness ==
    /\ last_event = "Backspace" /\ status = "running"
    /\ current_text = <<84, 81>> /\ decoded_text = <<77>>

====
